---- MODULE Spec2Model ----
(***************************************************************************)
(* Model of multipledispatch/__init__.py: Signature ordering, union        *)
(* expansion (unpack_signatures), and the dispatch table of the class      *)
(* multipledispatch (register, _add_items, __call__).                      *)
(*                                                                         *)
(* A Signature is a sequence of type names.  A parameter annotation is a   *)
(* sequence of members in declared order: one member is a plain            *)
(* annotation, two or more members are a typing.Union of them.  A member   *)
(* is a class (an element of Types) or the non-class annotation Generic    *)
(* (a subscripted generic such as List[int]).                              *)
(*                                                                         *)
(* Every error of the source is a Python TypeError; the model names the    *)
(* raise site: "SpecificationError" is line 38, "ConflictError" line 118,  *)
(* "NoMatchError" line 108, and "TypeError" is a TypeError raised by a     *)
(* builtin (issubclass, isinstance, argument binding).                     *)
(***************************************************************************)
EXTENDS Integers, Sequences, FiniteSets, TLC

VARIABLES world, table, last, pin, pout, groups, conc

vars == <<world, table, last, pin, pout, groups, conc>>

----------------------------------------------------------------------------
(* Bounds *)

\* Entries a dispatch table may hold
MaxTable == 3
\* Arity and union size of the inputs of the pure functions
MaxArity == 2
MaxUnion == 2

----------------------------------------------------------------------------
(* The host type universe *)

Types == {"object", "int", "bool", "str"}

\* A subscripted generic such as List[int]: an annotation that is no class.
Generic == "List[int]"

None == "None"

\* bool(fn): the handle "z" is a callable whose truth value is false.
Truthy(fn) == fn \notin {"z", None}

\* issubclass(a, b) for classes: bool <: int <: object, str <: object.
issubclass(a, b) ==
    \/ a = b
    \/ b = "object"
    \/ (a = "bool" /\ b = "int")

\* issubclass raises TypeError when either argument is not a class.
issubclassRaises(a, b) == a \notin Types \/ b \notin Types

Min(a, b) == IF a < b THEN a ELSE b

----------------------------------------------------------------------------
(* class Signature *)

\* all(map(issubclass, self, other)): map stops at the shorter argument.
supercedes(self, other) ==
    \A i \in 1..Min(Len(self), Len(other)) : issubclass(self[i], other[i])

\* The call raises when issubclass raises before all() meets a false value.
supercedesRaises(self, other) ==
    \E i \in 1..Min(Len(self), Len(other)) :
        /\ issubclassRaises(self[i], other[i])
        /\ \A j \in 1..(i - 1) :
              /\ ~issubclassRaises(self[j], other[j])
              /\ issubclass(self[j], other[j])

\* __lt__ without the arity test of lines 14-15
Signature_ltNoArity(self, other) ==
    supercedes(self, other) /\ ~supercedes(other, self)

Signature_lt(self, other) ==
    IF Len(self) # Len(other) THEN FALSE
    ELSE supercedes(self, other) /\ ~supercedes(other, self)

Signature_ltRaises(self, other) ==
    IF Len(self) # Len(other) THEN FALSE
    ELSE \/ supercedesRaises(self, other)
         \/ (supercedes(self, other) /\ supercedesRaises(other, self))

Signature_eq(self, other) ==
    IF Len(self) # Len(other) THEN FALSE
    ELSE \A i \in 1..Len(self) : self[i] = other[i]

----------------------------------------------------------------------------
(* unpack_signatures, get_signatures *)

\* The annotation tp is rejected at line 38: it is not a Union and not a class.
NonType(tp) == Len(tp) = 1 /\ tp[1] \notin Types

\* list(unpack_signatures(*specs)) raises the TypeError of line 38: the head
\* is checked first, then the generator of the remaining positions is
\* started for the first type of the head.
RECURSIVE unpackRaises(_)
unpackRaises(specs) ==
    \/ NonType(Head(specs))
    \/ (Tail(specs) # <<>> /\ unpackRaises(Tail(specs)))

\* The loops of lines 42-45 nested the other way round: the last position
\* outermost
RECURSIVE unpack_signaturesLastOutermost(_)
unpack_signaturesLastOutermost(specs) ==
    LET types == Head(specs)
        args == Tail(specs)
    IN  IF args = <<>>
        THEN [i \in 1..Len(types) |-> <<types[i]>>]
        ELSE LET rest == unpack_signaturesLastOutermost(args)
                 n == Len(types)
             IN  [k \in 1..(n * Len(rest)) |->
                     <<types[((k - 1) % n) + 1]>> \o rest[((k - 1) \div n) + 1]]

\* The sequence the generator yields: for tp in types, for sig in
\* unpack_signatures(*args), yield (tp, *sig).
RECURSIVE unpack_signatures(_)
unpack_signatures(specs) ==
    LET types == Head(specs)
        args == Tail(specs)
    IN  IF args = <<>>
        THEN [i \in 1..Len(types) |-> <<types[i]>>]
        ELSE LET rest == unpack_signatures(args)
                 n == Len(rest)
             IN  [k \in 1..(Len(types) * n) |->
                     <<types[((k - 1) \div n) + 1]>> \o rest[((k - 1) % n) + 1]]

\* Outcome of get_signatures for the annotations specs of a callable:
\* unpack_signatures() without arguments fails argument binding.
get_signaturesOut(specs) ==
    IF specs = <<>> THEN "TypeError"
    ELSE IF unpackRaises(specs) THEN "SpecificationError"
    ELSE "ok"

----------------------------------------------------------------------------
(* class multipledispatch: the table is a sequence of [sig, fn] items in    *)
(* the dict's iteration order                                               *)

Item(signature, fn) == [sig |-> signature, fn |-> fn]

HasKey(items, signature) ==
    \E i \in 1..Len(items) : Signature_eq(items[i].sig, signature)

\* self.signature_map.get(signature)
Get(items, signature) ==
    IF HasKey(items, signature)
    THEN items[CHOOSE i \in 1..Len(items) : Signature_eq(items[i].sig, signature)].fn
    ELSE None

\* The loop of lines 116-118 raises.
conflictRaises(items, signatures) ==
    \E k \in 1..Len(signatures) : Truthy(Get(items, signatures[k]))

\* _add_items without the comparison of line 137: every item is appended.
insertIndexAppend(items, signature) == Len(items) + 1

\* Index at which the inner loop of _add_items inserts signature:
\* the first item it is less than, Len(items) + 1 for the else branch.
insertIndex(items, signature) ==
    IF \E i \in 1..Len(items) : Signature_lt(signature, items[i].sig)
    THEN CHOOSE i \in 1..Len(items) :
            /\ Signature_lt(signature, items[i].sig)
            /\ \A j \in 1..(i - 1) : ~Signature_lt(signature, items[j].sig)
    ELSE Len(items) + 1

\* A comparison of the inner loop raises before the loop ends.
insertRaises(items, signature) ==
    \E i \in 1..Len(items) :
        /\ Signature_ltRaises(signature, items[i].sig)
        /\ \A j \in 1..(i - 1) :
              /\ ~Signature_ltRaises(signature, items[j].sig)
              /\ ~Signature_lt(signature, items[j].sig)

\* An insert that puts the items from index i on before those ahead of i
insertRotate(items, i, e) ==
    <<e>> \o SubSeq(items, i, Len(items)) \o SubSeq(items, 1, i - 1)

\* items.insert(i, e); items.append(e) when i = Len(items) + 1
insert(items, i, e) ==
    SubSeq(items, 1, i - 1) \o <<e>> \o SubSeq(items, i, Len(items))

\* The outer loop of _add_items over new_items, on the local list items.
RECURSIVE addLoop(_, _)
addLoop(items, new_items) ==
    IF new_items = <<>> THEN items
    ELSE LET e == Head(new_items)
         IN  addLoop(insert(items, insertIndex(items, e.sig), e), Tail(new_items))

RECURSIVE addLoopRaises(_, _)
addLoopRaises(items, new_items) ==
    IF new_items = <<>> THEN FALSE
    ELSE LET e == Head(new_items)
         IN  \/ insertRaises(items, e.sig)
             \/ addLoopRaises(insert(items, insertIndex(items, e.sig), e),
                              Tail(new_items))

\* dict(items): a repeated key keeps its first position and takes the last value.
RECURSIVE dict(_)
dict(items) ==
    IF items = <<>> THEN <<>>
    ELSE LET d == dict(SubSeq(items, 1, Len(items) - 1))
             e == items[Len(items)]
         IN  IF HasKey(d, e.sig)
             THEN [i \in 1..Len(d) |->
                      IF Signature_eq(d[i].sig, e.sig) THEN Item(d[i].sig, e.fn)
                      ELSE d[i]]
             ELSE Append(d, e)

\* _add_items: the new value of self.signature_map.
add_items(items, new_items) == dict(addLoop(items, new_items))

new_itemsOf(signatures, fn) ==
    [k \in 1..Len(signatures) |-> Item(signatures[k], fn)]

\* register(fn) for a callable annotated specs: its outcome, the new value
\* of self.signature_map (an exception leaves it as it was) and the
\* signatures it inserted.
register(items, specs, fn) ==
    LET g == get_signaturesOut(specs)
        signatures == unpack_signatures(specs)
        failed(out) == [out |-> out, table |-> items, sigs |-> <<>>]
    IN  IF g # "ok" THEN failed(g)
        ELSE IF conflictRaises(items, signatures) THEN failed("ConflictError")
        ELSE IF addLoopRaises(items, new_itemsOf(signatures, fn))
             THEN failed("TypeError")
        ELSE [out |-> "ok",
              table |-> add_items(items, new_itemsOf(signatures, fn)),
              sigs |-> signatures]

\* all(map(isinstance, args, signature)), args given by their classes
isinstanceAll(args, signature) ==
    \A i \in 1..Min(Len(args), Len(signature)) : issubclass(args[i], signature[i])

isinstanceAllRaises(args, signature) ==
    \E i \in 1..Min(Len(args), Len(signature)) :
        /\ signature[i] \notin Types
        /\ \A j \in 1..(i - 1) :
              /\ signature[j] \in Types
              /\ issubclass(args[j], signature[j])

\* __call__ without the arity test of lines 103-104
SelectsAnyArity(items, args, i) == isinstanceAll(args, items[i].sig)

\* The item __call__ returns from.
Selects(items, args, i) ==
    /\ Len(items[i].sig) = Len(args)
    /\ isinstanceAll(args, items[i].sig)

\* A loop that keeps the last matching item instead of returning the first
callIndexLast(items, args) ==
    IF \E i \in 1..Len(items) : Selects(items, args, i)
    THEN CHOOSE i \in 1..Len(items) :
            /\ Selects(items, args, i)
            /\ \A j \in (i + 1)..Len(items) : ~Selects(items, args, j)
    ELSE 0

\* Index of the item whose fn __call__ calls, 0 when the loop ends.
callIndex(items, args) ==
    IF \E i \in 1..Len(items) : Selects(items, args, i)
    THEN CHOOSE i \in 1..Len(items) :
            /\ Selects(items, args, i)
            /\ \A j \in 1..(i - 1) : ~Selects(items, args, j)
    ELSE 0

\* isinstance raises on an item the loop reaches.
callRaises(items, args) ==
    \E i \in 1..Len(items) :
        /\ Len(items[i].sig) = Len(args)
        /\ isinstanceAllRaises(args, items[i].sig)
        /\ \A j \in 1..(i - 1) :
              \/ Len(items[j].sig) # Len(args)
              \/ (~isinstanceAllRaises(args, items[j].sig)
                  /\ ~isinstanceAll(args, items[j].sig))

callOut(items, args) ==
    IF callRaises(items, args) THEN "TypeError"
    ELSE IF callIndex(items, args) = 0 THEN "NoMatchError"
    ELSE "ok"

----------------------------------------------------------------------------
(* Inputs *)

\* Sequences over S of length lo..hi
SeqsOf(S, lo, hi) == UNION {[1..n -> S] : n \in lo..hi}

Distinct(s) == \A i, j \in 1..Len(s) : i # j => s[i] # s[j]

\* Annotations over the members S: one member, or a Union of up to n
\* distinct members in declared order.
AnnotationsOf(S, n) == {tp \in SeqsOf(S, 1, n) : Distinct(tp)}

\* The callables of the class docstring, by their annotations
Docstring ==
    { << <<"object">>, <<"object">> >>,
      << <<"str">>, <<"int">> >>,
      << <<"str">>, <<"str">> >>,
      << <<"int">>, <<"int", "str">> >> }

\* A run of one multipledispatch object draws its inputs from one family:
\*   binary     two-parameter callables over object, int, bool
\*   unary      one-parameter callables, truthy and falsy handles
\*   mixed      callables of 0..2 parameters over int, bool and Generic
\*   docstring  the callables of the class docstring, in any order
Worlds == {"binary", "unary", "mixed", "docstring"}

Chain == {"object", "int", "bool"}

SpecLists ==
    [w \in Worlds |->
        CASE w = "binary" -> SeqsOf(AnnotationsOf(Chain, 2), 2, 2)
          [] w = "unary" -> SeqsOf(AnnotationsOf(Chain, 2), 1, 1)
          [] w = "mixed" -> SeqsOf(AnnotationsOf({"int", "bool", Generic}, 2), 0, 2)
          [] w = "docstring" -> Docstring]

Impls ==
    [w \in Worlds |-> IF w = "unary" THEN {"f", "z"} ELSE {"f"}]

\* Classes of the arguments of a call
ArgLists ==
    [w \in Worlds |->
        CASE w = "binary" -> SeqsOf(Chain, 0, 2)
          [] w = "unary" -> SeqsOf(Chain, 0, 2)
          [] w = "mixed" -> SeqsOf({"int", "bool"}, 0, 2)
          [] w = "docstring" -> SeqsOf(Types, 1, 2)]

----------------------------------------------------------------------------
(* One multipledispatch object *)

\* Input and result of the pure functions, unused by a dispatch-table run
PureIn(kind, A, B, C, specs) ==
    [kind |-> kind, A |-> A, B |-> B, C |-> C, specs |-> specs]

NoPure == PureIn("none", <<>>, <<>>, <<>>, <<>>)

NoResult ==
    [done |-> FALSE, raises |-> FALSE, supAB |-> FALSE, ltAA |-> FALSE,
     ltAB |-> FALSE, ltBA |-> FALSE, ltBC |-> FALSE, ltAC |-> FALSE,
     eqAB |-> FALSE, out |-> None, sigs |-> <<>>]

\* What the last operation was given and what it did: the outcome, the
\* arguments and the selected item of a call, the handle and the inserted
\* signatures of a register.  conflict, malformed and arity are facts about
\* the annotations a register call was given (arity -1: not a register).
Last(op, out, args, sel, fn, sigs, conflict, malformed, arity) ==
    [op |-> op, out |-> out, args |-> args, sel |-> sel, fn |-> fn,
     sigs |-> sigs, conflict |-> conflict, malformed |-> malformed,
     arity |-> arity]

\* Several multipledispatch objects and the threads of concurrent calls,
\* unused by a run of one object called from one thread
NoGroups == [cls |-> <<>>, inst |-> <<>>, made |-> {}, who |-> None]

NoConc == [serialized |-> TRUE, pre |-> <<>>, reg |-> <<>>, call |-> <<>>]

\* An annotation that is neither a class nor a union of classes
Malformed(tp) == \E i \in 1..Len(tp) : tp[i] \notin Types

MalformedList(specs) == \E p \in 1..Len(specs) : Malformed(specs[p])

\* The expansion of specs holds a signature that is a key of items.
Overlaps(items, specs) ==
    /\ get_signaturesOut(specs) = "ok"
    /\ \E sig \in {unpack_signatures(specs)[k] : k \in 1..Len(unpack_signatures(specs))} :
          HasKey(items, sig)

LastRegister(op, r, items, specs, fn) ==
    Last(op, r.out, <<>>, 0, fn, r.sigs, Overlaps(items, specs),
         MalformedList(specs), Len(specs))

\* The docstring's callables are registered at most once each, which bounds
\* that table; the other tables are cut at MaxTable entries.
Fits(w, items) == w = "docstring" \/ Len(items) <= MaxTable

\* __init__: register(fn) on the empty class-level dict; the object exists
\* only when it returns.
Init ==
    /\ world \in Worlds
    /\ \E specs \in SpecLists[world], fn \in Impls[world] :
          \E r \in {register(<<>>, specs, fn)} :
              /\ r.out = "ok"
              /\ Fits(world, r.table)
              /\ table = r.table
              /\ last = LastRegister("init", r, <<>>, specs, fn)
    /\ pin = NoPure
    /\ pout = NoResult
    /\ groups = NoGroups
    /\ conc = NoConc

Register(specs, fn) ==
    \E r \in {register(table, specs, fn)} :
        /\ Fits(world, r.table)
        /\ table' = r.table
        /\ last' = LastRegister("register", r, table, specs, fn)
        /\ UNCHANGED <<world, pin, pout, groups, conc>>

\* A __call__ that moves the item it selected to the front of the table
CallPromote(args) ==
    \E out \in {callOut(table, args)}, i \in {callIndex(table, args)} :
        /\ last' = Last("call", out, args, IF out = "ok" THEN i ELSE 0,
                        IF out = "ok" THEN table[i].fn ELSE None,
                        <<>>, FALSE, FALSE, -1)
        /\ table' = IF out = "ok"
                    THEN <<table[i]>> \o SubSeq(table, 1, i - 1)
                                     \o SubSeq(table, i + 1, Len(table))
                    ELSE table
        /\ UNCHANGED <<world, pin, pout, groups, conc>>

\* __call__(*args), up to the call of the selected fn
Call(args) ==
    \E out \in {callOut(table, args)}, i \in {callIndex(table, args)} :
        /\ last' = Last("call", out, args, IF out = "ok" THEN i ELSE 0,
                        IF out = "ok" THEN table[i].fn ELSE None,
                        <<>>, FALSE, FALSE, -1)
        /\ UNCHANGED <<world, table, pin, pout, groups, conc>>

Next ==
    \/ \E specs \in SpecLists[world], fn \in Impls[world] : Register(specs, fn)
    \/ \E args \in ArgLists[world] : Call(args)

Spec == Init /\ [][Next]_vars

----------------------------------------------------------------------------
(* The pure functions on their own: Signature's methods on three            *)
(* signatures A, B, C and get_signatures on an annotation list              *)

PureSigs == SeqsOf(Chain, 0, MaxArity)

PureSpecLists == SeqsOf(AnnotationsOf(Chain, MaxUnion), 0, MaxArity)

NoLast == Last("none", None, <<>>, 0, None, <<>>, FALSE, FALSE, -1)

InitPure ==
    /\ world = "pure"
    /\ table = <<>>
    /\ last = NoLast
    /\ \/ \E A, B, C \in PureSigs : pin = PureIn("sig", A, B, C, <<>>)
       \/ \E specs \in PureSpecLists : pin = PureIn("unpack", <<>>, <<>>, <<>>, specs)
    /\ pout = NoResult
    /\ groups = NoGroups
    /\ conc = NoConc

\* A.supercedes(B), A < B, A == B and the comparisons a chain A, B, C needs
Compare ==
    /\ pin.kind = "sig"
    /\ ~pout.done
    /\ pout' = [NoResult EXCEPT
                  !.done = TRUE,
                  !.raises = supercedesRaises(pin.A, pin.B),
                  !.supAB = supercedes(pin.A, pin.B),
                  !.ltAA = Signature_lt(pin.A, pin.A),
                  !.ltAB = Signature_lt(pin.A, pin.B),
                  !.ltBA = Signature_lt(pin.B, pin.A),
                  !.ltBC = Signature_lt(pin.B, pin.C),
                  !.ltAC = Signature_lt(pin.A, pin.C),
                  !.eqAB = Signature_eq(pin.A, pin.B)]
    /\ UNCHANGED <<world, table, last, pin, groups, conc>>

\* get_signatures of a callable annotated pin.specs
Expand ==
    /\ pin.kind = "unpack"
    /\ ~pout.done
    /\ pout' = [NoResult EXCEPT
                  !.done = TRUE,
                  !.out = get_signaturesOut(pin.specs),
                  !.sigs = IF get_signaturesOut(pin.specs) = "ok"
                           THEN unpack_signatures(pin.specs) ELSE <<>>]
    /\ UNCHANGED <<world, table, last, pin, groups, conc>>

NextPure == Compare \/ Expand

SpecPure == InitPure /\ [][NextPure]_vars

----------------------------------------------------------------------------
(* Several multipledispatch objects.  signature_map is declared on the      *)
(* class (line 96); _add_items assigns self.signature_map (line 143),       *)
(* which creates or rebinds an attribute of the instance.                   *)

Objects == {"d1", "d2"}

NoAttr == [set |-> FALSE, items |-> <<>>]

\* The value of the expression self.signature_map for the object o: the
\* attribute of the instance when it is set, else that of the class.
signature_map(g, o) == IF g.inst[o].set THEN g.inst[o].items ELSE g.cls

\* A write-back that updates the dict it read in place: before the first
\* write that dict is the one of the class
setattrInPlace(g, o, items) ==
    IF g.inst[o].set
    THEN [g EXCEPT !.inst[o] = [set |-> TRUE, items |-> items]]
    ELSE [g EXCEPT !.cls = items]

\* self.signature_map = dict(items) of line 143
setattr_signature_map(g, o, items) ==
    [g EXCEPT !.inst[o] = [set |-> TRUE, items |-> items]]

InitGroups ==
    /\ world = "groups"
    /\ table = <<>>
    /\ last = NoLast
    /\ pin = NoPure
    /\ pout = NoResult
    /\ groups = [cls |-> <<>>, inst |-> [o \in Objects |-> NoAttr],
                 made |-> {}, who |-> None]
    /\ conc = NoConc

\* o = multipledispatch(fn): __init__ calls self.register(fn); the object
\* exists only when it returns.
Construct(o, specs, fn) ==
    /\ o \notin groups.made
    /\ \E r \in {register(signature_map(groups, o), specs, fn)} :
          /\ last' = LastRegister("init", r, signature_map(groups, o), specs, fn)
          /\ groups' =
                IF r.out = "ok"
                THEN [setattr_signature_map(groups, o, r.table) EXCEPT
                         !.made = @ \cup {o}, !.who = o]
                ELSE [groups EXCEPT !.who = o]
    /\ UNCHANGED <<world, table, pin, pout, conc>>

\* o.register(fn)
RegisterOn(o, specs, fn) ==
    /\ o \in groups.made
    /\ \E r \in {register(signature_map(groups, o), specs, fn)} :
          /\ last' = LastRegister("register", r, signature_map(groups, o), specs, fn)
          /\ groups' =
                IF r.out = "ok"
                THEN [setattr_signature_map(groups, o, r.table) EXCEPT !.who = o]
                ELSE [groups EXCEPT !.who = o]
    /\ UNCHANGED <<world, table, pin, pout, conc>>

NextGroups ==
    \/ \E o \in Objects, specs \in SpecLists["unary"], fn \in Impls["unary"] :
          Construct(o, specs, fn)
    \/ \E o \in Objects, specs \in SpecLists["unary"], fn \in Impls["unary"] :
          RegisterOn(o, specs, fn)

SpecGroups == InitGroups /\ [][NextGroups]_vars

----------------------------------------------------------------------------
(* Calls of register and __call__ from several threads on one object.  A    *)
(* step is a stretch of a method that reads or writes self.signature_map    *)
(* at most once; the interpreter may switch threads between two steps.      *)

Threads == {1, 2}

\* The callable each thread registers
HandleOf == [t \in Threads |-> IF t = 1 THEN "g" ELSE "h"]

\* A thread in register: where it is, fn, the signatures of line 114, the
\* index of the loop it is in, its local list items, and its outcome
RegIdle ==
    [pc |-> "idle", fn |-> None, sigs |-> <<>>, k |-> 0, items |-> <<>>,
     out |-> None]

\* The thread in __call__: its arguments, the dict it iterates, the index
\* of the next item, its outcome and the index of the item it returns from
CallIdle ==
    [pc |-> "idle", args |-> <<>>, view |-> <<>>, i |-> 0, out |-> None,
     sel |-> 0]

Finished(rec, out) == [rec EXCEPT !.pc = "done", !.out = out]

\* The table of an object constructed with one callable
InitTables ==
    {register(<<>>, specs, fn).table :
        specs \in SpecLists["unary"], fn \in Impls["unary"]}

InitConc(w, serialized) ==
    /\ world = w
    /\ table \in InitTables
    /\ last = NoLast
    /\ pin = NoPure
    /\ pout = NoResult
    /\ groups = NoGroups
    /\ conc = [serialized |-> serialized, pre |-> table,
               reg |-> [t \in Threads |-> RegIdle], call |-> CallIdle]

\* register is entered and get_signatures(fn) returns or raises (line 114).
\* With external serialization the caller holds a lock around register.
Begin(t, specs, fn) ==
    /\ conc.reg[t].pc = "idle"
    /\ conc.serialized =>
          \A u \in Threads \ {t} : conc.reg[u].pc \in {"idle", "done"}
    /\ conc' = [conc EXCEPT !.reg[t] =
                  IF get_signaturesOut(specs) # "ok"
                  THEN Finished([@ EXCEPT !.fn = fn], get_signaturesOut(specs))
                  ELSE [@ EXCEPT !.pc = "check", !.fn = fn,
                                 !.sigs = unpack_signatures(specs), !.k = 1]]
    /\ UNCHANGED <<world, table, last, pin, pout, groups>>

\* One pass of the loop of lines 116-118
Check(t) ==
    /\ conc.reg[t].pc = "check"
    /\ conc' = [conc EXCEPT !.reg[t] =
                  IF Truthy(Get(table, @.sigs[@.k]))
                  THEN Finished(@, "ConflictError")
                  ELSE IF @.k = Len(@.sigs) THEN [@ EXCEPT !.pc = "snapshot"]
                  ELSE [@ EXCEPT !.k = @ + 1]]
    /\ UNCHANGED <<world, table, last, pin, pout, groups>>

\* items = list(self.signature_map.items()) of line 134
Snapshot(t) ==
    /\ conc.reg[t].pc = "snapshot"
    /\ conc' = [conc EXCEPT !.reg[t] =
                  [@ EXCEPT !.pc = "insert", !.items = table, !.k = 1]]
    /\ UNCHANGED <<world, table, last, pin, pout, groups>>

\* The record of the thread after one pass of the loop of lines 135-141
Inserted(rec) ==
    LET e == Item(rec.sigs[rec.k], rec.fn)
    IN  IF insertRaises(rec.items, e.sig) THEN Finished(rec, "TypeError")
        ELSE [rec EXCEPT
                !.items = insert(rec.items, insertIndex(rec.items, e.sig), e),
                !.k = @ + 1,
                !.pc = IF rec.k = Len(rec.sigs) THEN "write" ELSE "insert"]

\* A pass of the loop that inserts into the dict of the object itself
InsertStepPublish(t) ==
    /\ conc.reg[t].pc = "insert"
    /\ conc' = [conc EXCEPT !.reg[t] = Inserted(@)]
    /\ table' = dict(Inserted(conc.reg[t]).items)
    /\ UNCHANGED <<world, last, pin, pout, groups>>

\* One pass of the loop of lines 135-141, on the local list
InsertStep(t) ==
    /\ conc.reg[t].pc = "insert"
    /\ conc' = [conc EXCEPT !.reg[t] = Inserted(@)]
    /\ UNCHANGED <<world, table, last, pin, pout, groups>>

\* self.signature_map = dict(items) of line 143, and register returns self
WriteBack(t) ==
    /\ conc.reg[t].pc = "write"
    /\ table' = dict(conc.reg[t].items)
    /\ conc' = [conc EXCEPT !.reg[t] = Finished(@, "ok")]
    /\ UNCHANGED <<world, last, pin, pout, groups>>

\* __call__ evaluates self.signature_map.items() once (line 102); the dict
\* it iterates is never modified afterwards, register binds a new one.
CallBegin(args) ==
    /\ conc.call.pc = "idle"
    /\ conc' = [conc EXCEPT !.call =
                  [@ EXCEPT !.pc = "scan", !.args = args, !.view = table,
                            !.i = 1]]
    /\ UNCHANGED <<world, table, last, pin, pout, groups>>

\* One pass of the loop of lines 102-106, or its end (line 108)
CallScan ==
    /\ conc.call.pc = "scan"
    /\ LET c == conc.call
       IN  conc' = [conc EXCEPT !.call =
                      IF c.i > Len(c.view) THEN Finished(c, "NoMatchError")
                      ELSE IF Len(c.view[c.i].sig) # Len(c.args)
                           THEN [c EXCEPT !.i = c.i + 1]
                      ELSE IF isinstanceAllRaises(c.args, c.view[c.i].sig)
                           THEN Finished(c, "TypeError")
                      ELSE IF isinstanceAll(c.args, c.view[c.i].sig)
                           THEN Finished([c EXCEPT !.sel = c.i], "ok")
                      ELSE [c EXCEPT !.i = c.i + 1]]
    /\ UNCHANGED <<world, table, last, pin, pout, groups>>

\* Two threads in register on one object, with or without a lock around
\* each call
InitRace == \E serialized \in BOOLEAN : InitConc("race", serialized)

NextRace ==
    \/ \E t \in Threads, specs \in SpecLists["unary"] :
          Begin(t, specs, HandleOf[t])
    \/ \E t \in Threads : Check(t)
    \/ \E t \in Threads : Snapshot(t)
    \/ \E t \in Threads : InsertStep(t)
    \/ \E t \in Threads : WriteBack(t)

SpecRace == InitRace /\ [][NextRace]_vars

\* One thread in register and one in __call__ on one object
InitRead == InitConc("read", FALSE)

NextRead ==
    \/ \E specs \in SpecLists["unary"] : Begin(1, specs, HandleOf[1])
    \/ Check(1)
    \/ Snapshot(1)
    \/ InsertStep(1)
    \/ WriteBack(1)
    \/ \E args \in ArgLists["unary"] : CallBegin(args)
    \/ CallScan

SpecRead == InitRead /\ [][NextRead]_vars

----------------------------------------------------------------------------
(* Properties of the dispatch table *)

\* Position of the entry of signature sig in items
Pos(items, sig) == CHOOSE i \in 1..Len(items) : Signature_eq(items[i].sig, sig)

\* X < Y of the specificity order, stated on the types: same arity, every
\* type of X a subtype of or equal to the type of Y there, and not every
\* type of Y a subtype of or equal to the type of X.
MoreSpecific(X, Y) ==
    /\ Len(X) = Len(Y)
    /\ \A p \in 1..Len(X) : issubclass(X[p], Y[p])
    /\ \E p \in 1..Len(X) : ~issubclass(Y[p], X[p])

\* The entry at index i has the arity of args and every declared type of it
\* is a supertype of or equal to the argument's type.
Qualifies(items, args, i) ==
    /\ Len(items[i].sig) = Len(args)
    /\ \A p \in 1..Len(args) : issubclass(args[p], items[i].sig[p])

\* No table ever holds a signature with a member that is no class.
OnlyClasses ==
    \A i \in 1..Len(table) : \A p \in 1..Len(table[i].sig) :
        table[i].sig[p] \in Types

\* C1: after any sequence of register calls the table order is a
\* linearization of the specificity order: an entry X that is strictly more
\* specific than an entry Y stands before Y.
C1_Linearized ==
    \A i, j \in 1..Len(table) :
        MoreSpecific(table[i].sig, table[j].sig) => i < j

\* A successful register of a union-expanded batch into a table that then
\* holds three entries, two of them comparable
C1_Witness ==
    /\ last.op = "register"
    /\ last.out = "ok"
    /\ Len(last.sigs) = 2
    /\ Len(table) = 3
    /\ \E i, j \in 1..Len(table) : MoreSpecific(table[i].sig, table[j].sig)

\* C2: a call never selects an entry R when a matching entry M is strictly
\* more specific than R; a matching entry that is strictly more specific
\* than every other matching entry is the one selected; with the
\* docstring's callables registered, the call (str, int) selects (str, int).
C2_MostSpecificFirst ==
    last.op = "call" =>
        /\ last.out = "ok" =>
              ~\E m \in 1..Len(table) :
                  /\ Qualifies(table, last.args, m)
                  /\ MoreSpecific(table[m].sig, table[last.sel].sig)
        /\ \A m \in 1..Len(table) :
              (/\ Qualifies(table, last.args, m)
               /\ \A k \in 1..Len(table) :
                     (k # m /\ Qualifies(table, last.args, k))
                         => MoreSpecific(table[m].sig, table[k].sig))
                  => (last.out = "ok" /\ last.sel = m)
        /\ (world = "docstring" /\ Len(table) = 5 /\ last.args = <<"str", "int">>)
              => (last.out = "ok" /\ table[last.sel].sig = <<"str", "int">>)

\* The docstring's four callables are registered and (str, int) was called.
C2_Witness ==
    /\ world = "docstring"
    /\ Len(table) = 5
    /\ last.op = "call"
    /\ last.args = <<"str", "int">>
    /\ last.out = "ok"
    /\ table[last.sel].sig = <<"str", "int">>
    /\ \E k \in 1..Len(table) : k # last.sel /\ Qualifies(table, last.args, k)

\* C3: a call returns the implementation of the first entry, in table
\* order, that has the arity of the arguments and whose declared types are
\* all supertypes of or equal to the argument types; an entry of another
\* arity is never selected; without such an entry it fails with NoMatchError.
C3_FirstMatch ==
    last.op = "call" =>
        IF \E i \in 1..Len(table) : Qualifies(table, last.args, i)
        THEN /\ last.out = "ok"
             /\ Qualifies(table, last.args, last.sel)
             /\ \A j \in 1..(last.sel - 1) : ~Qualifies(table, last.args, j)
             /\ last.fn = table[last.sel].fn
             /\ Len(table[last.sel].sig) = Len(last.args)
        ELSE /\ last.out = "NoMatchError"
             /\ last.sel = 0
             /\ last.fn = None

\* A call that skipped an entry of another arity and selected a later one
C3_Witness ==
    /\ last.op = "call"
    /\ last.out = "ok"
    /\ last.sel > 1
    /\ \E j \in 1..(last.sel - 1) : Len(table[j].sig) # Len(last.args)

\* C4: a register call whose expansion holds a signature equal to one in
\* the table fails with ConflictError and leaves the table as it was.
C4_ConflictAllOrNothing ==
    [][(last'.op = "register" /\ last'.conflict)
          => (last'.out = "ConflictError" /\ table' = table)]_vars

\* Two signatures of one arity, neither equal to nor more specific than the other
Incomparable(X, Y) ==
    /\ Len(X) = Len(Y)
    /\ ~Signature_eq(X, Y)
    /\ ~MoreSpecific(X, Y)
    /\ ~MoreSpecific(Y, X)

\* A registration keeps the order of every incomparable pair of the table.
OrderKept ==
    \A i, j \in 1..Len(table) :
        (i < j /\ Incomparable(table[i].sig, table[j].sig))
            => Pos(table', table[i].sig) < Pos(table', table[j].sig)

\* A signature the registration inserts stands after every incomparable
\* signature inserted before it: those of the table and those that precede
\* it in the batch.
InsertedAfter ==
    \A k \in 1..Len(last'.sigs) :
        ~HasKey(table, last'.sigs[k]) =>
            \A A \in {table[i].sig : i \in 1..Len(table)}
                       \cup {last'.sigs[m] : m \in 1..(k - 1)} :
                Incomparable(A, last'.sigs[k])
                    => Pos(table', A) < Pos(table', last'.sigs[k])

\* A call selects no entry that stands after a qualifying one.
EarliestSelected ==
    \A j \in 1..Len(table') :
        Qualifies(table', last'.args, j) => last'.sel <= j

\* C5 as claimed: of two incomparable signatures the one inserted first is
\* and stays the earlier one, and wins the calls that match both.
C5_FirstInsertedFirst ==
    [][/\ (last'.op = "register" /\ last'.out = "ok")
              => (OrderKept /\ InsertedAfter)
       /\ (last'.op = "call" /\ last'.out = "ok") => EarliestSelected]_vars

\* C5 (amended): once two incomparable signatures of one arity are both
\* in the table no later registration changes their order, and a call
\* that matches both selects the one that stands earlier in the table;
\* that one need not be the one inserted first.
C5_OrderKept ==
    [][/\ (last'.op = "register" /\ last'.out = "ok") => OrderKept
       /\ (last'.op = "call" /\ last'.out = "ok") => EarliestSelected]_vars

\* A registration succeeded on a table that already held an incomparable
\* pair which it did not insert.
C5_Witness ==
    /\ last.op = "register"
    /\ last.out = "ok"
    /\ \E i, j \in 1..Len(table) :
          /\ i < j
          /\ Incomparable(table[i].sig, table[j].sig)
          /\ \A k \in 1..Len(last.sigs) :
                /\ ~Signature_eq(last.sigs[k], table[i].sig)
                /\ ~Signature_eq(last.sigs[k], table[j].sig)

\* C9: a register call with a malformed annotation at any position fails
\* with SpecificationError and leaves the table as it was.
C9_MalformedRejected ==
    [][(last'.op = "register" /\ last'.malformed)
          => (last'.out = "SpecificationError" /\ table' = table)]_vars

\* C10: a call never changes the table, and a call repeated with the same
\* argument types and no registration in between has the same result.
C10_CallReadOnly ==
    [][last'.op = "call" =>
          /\ table' = table
          /\ (last.op = "call" /\ last.args = last'.args) => last' = last]_vars

\* A call failed with NoMatchError on a table of several entries.
C10_Witness ==
    /\ last.op = "call"
    /\ last.out = "NoMatchError"
    /\ Len(table) >= 2

----------------------------------------------------------------------------
(* Properties of the pure functions *)

\* Index of the member t in the annotation tp
IndexIn(tp, t) == CHOOSE i \in 1..Len(tp) : tp[i] = t

RECURSIVE Product(_)
Product(specs) ==
    IF specs = <<>> THEN 1 ELSE Len(Head(specs)) * Product(Tail(specs))

\* sig1 precedes sig2 in the order of the choices: first position outermost,
\* each position in declared order.
ChoiceBefore(specs, sig1, sig2) ==
    \E p \in 1..Len(specs) :
        /\ \A q \in 1..(p - 1) : sig1[q] = sig2[q]
        /\ IndexIn(specs[p], sig1[p]) < IndexIn(specs[p], sig2[p])

C7_StrictPartialOrder ==
    (pout.done /\ pin.kind = "sig") =>
        /\ ~pout.ltAA
        /\ ~(pout.ltAB /\ pout.ltBA)
        /\ (pout.ltAB /\ pout.ltBC) => pout.ltAC
        /\ Len(pin.A) # Len(pin.B) => (~pout.ltAB /\ ~pout.eqAB)

\* A chain A < B < C of three distinct signatures of arity two
C7_Witness ==
    /\ pout.done
    /\ pin.kind = "sig"
    /\ Len(pin.A) = 2
    /\ pout.ltAB
    /\ pout.ltBC
    /\ pout.ltAC

\* C8: supersedes(A, B) never fails; it is false when the arities differ,
\* and for equal arities true exactly when every type of A is a subtype of
\* or equal to the type of B at its position.
C8_SupersedesArity ==
    (pout.done /\ pin.kind = "sig") =>
        /\ ~pout.raises
        /\ pout.supAB =
              (/\ Len(pin.A) = Len(pin.B)
               /\ \A p \in 1..Len(pin.A) : issubclass(pin.A[p], pin.B[p]))

----------------------------------------------------------------------------
(* Registration: placement, bookkeeping, arity 0, conflicts *)

\* The entries of items, as a set
Entries(items) == {items[i] : i \in 1..Len(items)}

NoDuplicate(items) ==
    \A i, j \in 1..Len(items) :
        Signature_eq(items[i].sig, items[j].sig) => i = j

\* The sequence with e placed immediately before the first entry it is
\* strictly more specific than, at the end when there is none.
Place(seq, e) ==
    LET before == {i \in 1..Len(seq) : MoreSpecific(e.sig, seq[i].sig)}
        at == IF before = {} THEN Len(seq) + 1
              ELSE CHOOSE i \in before : \A j \in before : i <= j
    IN  SubSeq(seq, 1, at - 1) \o <<e>> \o SubSeq(seq, at, Len(seq))

RECURSIVE PlaceAll(_, _)
PlaceAll(seq, batch) ==
    IF batch = <<>> THEN seq
    ELSE PlaceAll(Place(seq, Head(batch)), Tail(batch))

\* Every entry of old stands in new with its implementation, and two entries
\* of old stand in new in the order they had.
PriorKept(old, new) ==
    /\ \A i \in 1..Len(old) : \E j \in 1..Len(new) : new[j] = old[i]
    /\ \A i, j \in 1..Len(old) :
          i < j => \A a, b \in 1..Len(new) :
                      (new[a] = old[i] /\ new[b] = old[j]) => a < b

\* C12: a successful register places each signature of its batch, in
\* expansion order, immediately before the first entry of the current
\* sequence it is strictly less than, or at the end; the entries already
\* present keep their relative order and their implementations.
C12_Placement ==
    [][(last'.op = "register" /\ last'.out = "ok")
          => /\ table' = PlaceAll(table, new_itemsOf(last'.sigs, last'.fn))
             /\ PriorKept(table, table')]_vars

\* C13: the table holds one entry for every signature of every successful
\* registration, mapped to that registration's implementation, and nothing
\* else: no two entries have equal signatures, a success adds the entries of
\* its expansion to those present and grows the count by the expansion
\* size, a failure changes nothing.
C13_ExactEntries ==
    /\ [](/\ NoDuplicate(table)
          /\ last.op = "init"
                => (/\ Entries(table) = Entries(new_itemsOf(last.sigs, last.fn))
                    /\ Len(table) = Len(last.sigs)))
    /\ [][last'.op = "register"
            => IF last'.out = "ok"
               THEN /\ Entries(table') = Entries(table)
                          \cup Entries(new_itemsOf(last'.sigs, last'.fn))
                    /\ Len(table') = Len(table) + Len(last'.sigs)
               ELSE table' = table]_vars

\* C16: a register of a callable without parameters succeeds and the table
\* then holds the empty signature, mapped to that callable.
C16_EmptySignature ==
    [][(last'.op = "register" /\ last'.arity = 0)
          => /\ last'.out = "ok"
             /\ last'.sigs = << <<>> >>
             /\ Get(table', <<>>) = last'.fn]_vars

\* C17: a register whose expansion holds a signature of the table is
\* reported as a conflict whatever implementation is stored for it, and no
\* register replaces a stored implementation that evaluates as false.
C17_FalsyStillConflicts ==
    [][last'.op = "register"
          => /\ last'.conflict => last'.out = "ConflictError"
             /\ \A i \in 1..Len(table) :
                   ~Truthy(table[i].fn)
                       => Get(table', table[i].sig) = table[i].fn]_vars

----------------------------------------------------------------------------
(* Several objects *)

\* C14: each object has its own table: a newly constructed object holds
\* exactly the expansion of its initial implementation, and a register or a
\* construction leaves the table of every other object as it was.
C14_OwnTable ==
    [][\A o \in Objects :
          /\ (o \in groups.made /\ o # groups'.who)
                => /\ o \in groups'.made
                   /\ signature_map(groups', o) = signature_map(groups, o)
          /\ (o \in groups'.made /\ o \notin groups.made)
                => /\ Entries(signature_map(groups', o))
                         = Entries(new_itemsOf(last'.sigs, last'.fn))
                   /\ Len(signature_map(groups', o)) = Len(last'.sigs)]_vars

\* Both objects exist, the second was constructed after the first had
\* entries, a register on one of them has just succeeded and their tables
\* differ.
C14_Witness ==
    /\ groups.made = Objects
    /\ last.op = "register"
    /\ last.out = "ok"
    /\ Len(signature_map(groups, "d1")) = 3
    /\ Len(signature_map(groups, "d2")) = 1
    /\ groups.cls = <<>>

----------------------------------------------------------------------------
(* Concurrent callers *)

\* The register of thread t has returned without error.
Succeeded(t) == conc.reg[t].pc = "done" /\ conc.reg[t].out = "ok"

SigsOf(t) == {conc.reg[t].sigs[k] : k \in 1..Len(conc.reg[t].sigs)}

\* The table lacks a signature of a registration that reported success.
LacksSignature ==
    \E t \in Threads :
        Succeeded(t) /\ \E sig \in SigsOf(t) : ~HasKey(table, sig)

\* A registration reported success for a signature that the table held
\* before, or that another successful registration holds too.
DuplicateEscaped ==
    \E t \in Threads :
        /\ Succeeded(t)
        /\ \E sig \in SigsOf(t) :
              \/ HasKey(conc.pre, sig)
              \/ \E u \in Threads \ {t} : Succeeded(u) /\ sig \in SigsOf(u)

\* C11: when the register calls on one table are serialized, the table
\* never lacks a signature of a registration that reported success and no
\* duplicate signature escapes conflict detection.
C11_SerializedSafe ==
    conc.serialized => (~LacksSignature /\ ~DuplicateEscaped)

\* Without serialization both registrations of distinct signatures have
\* reported success and the table lacks a signature of one of them.
C11_LostUpdate ==
    /\ ~conc.serialized
    /\ \A t \in Threads : Succeeded(t)
    /\ LacksSignature
    /\ \A i \in 1..Len(conc.pre) : Truthy(conc.pre[i].fn)

\* Without serialization both registrations of one signature have reported
\* success, over a table whose handles are all truthy.
C11_DuplicateRace ==
    /\ ~conc.serialized
    /\ \A t \in Threads : Succeeded(t)
    /\ SigsOf(1) \cap SigsOf(2) # {}
    /\ \A i \in 1..Len(conc.pre) : Truthy(conc.pre[i].fn)

\* The table a register of thread 1 on the table pre produces when nothing
\* runs beside it
PostTable ==
    LET rec == conc.reg[1]
        new_items == new_itemsOf(rec.sigs, rec.fn)
    IN  IF \/ rec.pc = "idle"
           \/ rec.sigs = <<>>
           \/ conflictRaises(conc.pre, rec.sigs)
           \/ addLoopRaises(conc.pre, new_items)
        THEN conc.pre
        ELSE add_items(conc.pre, new_items)

\* Outcome and selected entry of a call of args on the table items
Resolved(items, args) ==
    [out |-> callOut(items, args),
     item |-> IF callOut(items, args) = "ok"
              THEN items[callIndex(items, args)] ELSE Item(<<>>, None)]

\* C15: a call that runs beside one register iterates the complete table of
\* before the registration or the complete table of after it, never a table
\* with part of a batch or one that is not linearized, and its result is
\* the one of a call on one of these two tables.
C15_PreOrPost ==
    conc.call.pc \in {"scan", "done"} =>
        /\ conc.call.view \in {conc.pre, PostTable}
        /\ \A i, j \in 1..Len(conc.call.view) :
              MoreSpecific(conc.call.view[i].sig, conc.call.view[j].sig) => i < j
        /\ conc.call.pc = "done" =>
              [out |-> conc.call.out,
               item |-> IF conc.call.out = "ok"
                        THEN conc.call.view[conc.call.sel] ELSE Item(<<>>, None)]
                 \in {Resolved(conc.pre, conc.call.args),
                      Resolved(PostTable, conc.call.args)}

\* The call began before the write-back of a union-expanded batch and is
\* still iterating the table of before it when the register has returned;
\* the two tables give its arguments different entries.
C15_Witness ==
    /\ conc.call.pc = "scan"
    /\ conc.call.i > 1
    /\ conc.call.view = conc.pre
    /\ Succeeded(1)
    /\ Len(conc.reg[1].sigs) = 2
    /\ table = PostTable
    /\ Resolved(conc.pre, conc.call.args) # Resolved(PostTable, conc.call.args)

====
